---- MODULE Spec2Model ----
(***************************************************************************)
(* Thumbnail artwork management of tubearchivist                           *)
(* (home/src/download/thumbnails.py): ThumbManagerBase.download_raw with   *)
(* its retry loop and fallback lookup, the ThumbManager download / delete  *)
(* methods over the cache directory, the ThumbValidator scan and the       *)
(* ThumbFilesystem embedder.                                               *)
(*                                                                         *)
(* The program is sequential.  One step of the model is the code that runs *)
(* between two answers of the outside world: from the call of a method up  *)
(* to the first requests.get, and from one HTTP answer up to the next      *)
(* requests.get or the end of the method.  Directories are not part of the *)
(* state: the folders of the cache exist, and download_video_thumb creates *)
(* its shard folder before it fetches.  SpecRace runs two validation       *)
(* passes as two processes; there the save of a file is two steps, the     *)
(* opening of the file and the writing of its bytes.                       *)
(***************************************************************************)
EXTENDS Integers, Sequences, FiniteSets, TLC

VARIABLES
    cache,      \* files of the cache directory: path -> stored image
    handler,    \* the caller's ThumbManager object
    local,      \* a ThumbManager object that lives for one call only
    pc,         \* "idle", "http" (requests.get pending), "scan" (in the pass)
    frame,      \* the store method in progress and its arguments
    raw,        \* the download_raw call in progress
    scan,       \* the validation pass in progress
    out,        \* what the operation in progress / just finished did
    prev,       \* status of the pass that ended right before this operation
    focus,      \* the entities the callers of this run work with
    media,      \* the media files: path -> the value of the covr tag
    procs       \* two validation passes that run at the same time: for
                \* each its own local, pc, frame, raw, scan, out, prev, and
                \* save (the file it has open for writing)

vars == <<cache, handler, local, pc, frame, raw, scan, out, prev, focus,
          media, procs>>

----------------------------------------------------------------------------
(* Bounds of the model *)

NumVideos == 3
NumChannels == 1
NumPlaylists == 1
PageSize == 1
MaxEntities == 2
MaxWidth == 24
MaxHeight == 24

----------------------------------------------------------------------------
(* Python values *)

None == "<None>"
EmptyUrl == ""
Url1 == "http://i/1"
Url2 == "http://i/2"
Urls == {None, EmptyUrl, Url1, Url2}

\* `not url`
Falsy(url) == url \in {None, EmptyUrl}

\* the value False that download_raw returns after the loop
PyFalse == [src |-> "False", w |-> 0, h |-> 0]

IsImage(v) == v.src # "False"

\* the image a url serves when the answer is 2xx and decodable: a 16:9
\* thumbnail at the first url, a small portrait picture at the second
RemoteImage(url) ==
    IF url = Url1 THEN [src |-> "remote-1", w |-> 1280, h |-> 720]
                  ELSE [src |-> "remote-2", w |-> 10, h |-> 20]

\* the images bundled under static/img and a caller-supplied fallback file
DefaultVideoThumb == [src |-> "default-video-thumb", w |-> 640, h |-> 360]
DefaultChannelIcon == [src |-> "default-channel-icon", w |-> 8, h |-> 8]
DefaultChannelBanner == [src |-> "default-channel-banner", w |-> 40, h |-> 10]
CustomFallback == [src |-> "custom-fallback", w |-> 8, h |-> 8]

\* outcomes of one requests.get
Outcomes == {"ok_image", "ok_undecodable", "404", "other_status", "neterr"}

----------------------------------------------------------------------------
(* Identifiers and paths.  A string is a sequence of tokens; the tokens of *)
(* an id are its characters.                                               *)

Lower(c) == CASE c = "A" -> "a" [] c = "B" -> "b" [] c = "U" -> "u"
              [] c = "C" -> "c" [] c = "P" -> "p" [] c = "L" -> "l"
              [] OTHER -> c

VideoIdList == << <<"A", "b">>, <<"B">>, <<"a">>, <<"b">> >>
ChannelIdList == << <<"U", "C">>, <<"U", "c">> >>
PlaylistIdList == << <<"P", "L">>, <<"P", "l">> >>

VideoIds == {VideoIdList[i] : i \in 1..NumVideos}
ChannelIds == {ChannelIdList[i] : i \in 1..NumChannels}
PlaylistIds == {PlaylistIdList[i] : i \in 1..NumPlaylists}

\* os.path.join of two paths
Join(a, b) ==
    IF b # <<>> /\ b[1] = "/" THEN b
    ELSE IF a = <<>> \/ a[Len(a)] = "/" THEN a \o b
    ELSE a \o <<"/">> \o b

CACHE_DIR == <<"/", "cache">>
VIDEO_DIR == Join(CACHE_DIR, <<"videos">>)
CHANNEL_DIR == Join(CACHE_DIR, <<"channels">>)
PLAYLIST_DIR == Join(CACHE_DIR, <<"playlists">>)

----------------------------------------------------------------------------
(* ThumbManagerBase / ThumbManager objects *)

NoFallback == "<False>"
CustomFallbackPath == "custom.jpg"

ItemTypes == {"video", "channel", "playlist", "icon", "banner"}

\* ThumbManager(item_id, item_type="video", fallback=False)
ThumbManager(item_id, item_type, fallback) ==
    [item_id |-> item_id, item_type |-> item_type, fallback |-> fallback]

NoHandler == ThumbManager(<<>>, "video", NoFallback)

\* the value of a call: what it returned, or the exception it raised
Returned(v) == [exc |-> "none", val |-> v]
Raised(e) == [exc |-> e, val |-> PyFalse]

default_map ==
    [k \in {"video", "playlist", "icon", "banner"} |->
        CASE k = "video" -> DefaultVideoThumb
          [] k = "playlist" -> DefaultVideoThumb
          [] k = "icon" -> DefaultChannelIcon
          [] k = "banner" -> DefaultChannelBanner]

\* get_fallback with the "banner" entry missing from default_map
get_fallback_NoBanner(self) ==
    IF self.fallback # NoFallback
    THEN Returned(CustomFallback)
    ELSE IF self.item_type \in DOMAIN default_map \ {"banner"}
         THEN Returned(default_map[self.item_type])
         ELSE Raised("KeyError")

get_fallback(self) ==
    IF self.fallback # NoFallback
    THEN Returned(CustomFallback)
    ELSE IF self.item_type \in DOMAIN default_map
         THEN Returned(default_map[self.item_type])
         ELSE Raised("KeyError")

\* sleep((i + 1) ** i)
Pow(b, e) == IF e = 0 THEN 1 ELSE IF e = 1 THEN b ELSE b * b
SleepTime(i) == Pow(i + 1, i)

\* range(3)
MaxAttempts == 3

\* vid_thumb_path without .lower() on the folder name
vid_thumb_path_NoLower(self, absolute) ==
    LET folder_name == <<self.item_id[1]>>
        folder_path == Join(<<"videos">>, folder_name)
        thumb_path == Join(folder_path, self.item_id \o <<".jpg">>)
    IN  IF absolute THEN Join(CACHE_DIR, thumb_path) ELSE thumb_path

vid_thumb_path(self, absolute) ==
    LET folder_name == <<Lower(self.item_id[1])>>
        folder_path == Join(<<"videos">>, folder_name)
        thumb_path == Join(folder_path, self.item_id \o <<".jpg">>)
    IN  IF absolute THEN Join(CACHE_DIR, thumb_path) ELSE thumb_path

ChannelThumbPath(self) ==
    Join(CHANNEL_DIR, self.item_id \o <<"_thumb.jpg">>)
\* the banner stored under the name of the thumb
ChannelBannerPath_ThumbName(self) ==
    Join(CHANNEL_DIR, self.item_id \o <<"_thumb.jpg">>)
ChannelBannerPath(self) ==
    Join(CHANNEL_DIR, self.item_id \o <<"_banner.jpg">>)
PlaylistThumbPath(self) ==
    Join(PLAYLIST_DIR, self.item_id \o <<".jpg">>)

\* round() of the rational n/d, d > 0: halves go to the even neighbour
Round(n, d) ==
    LET q == n \div d
        r == n % d
    IN  IF 2 * r < d THEN q
        ELSE IF 2 * r > d THEN q + 1
        ELSE IF q % 2 = 0 THEN q ELSE q + 1

\* lines 123-128: new_height = width / 16 * 9, offset = (height -
\* new_height) / 2, crop((0, offset, width, height - offset)); the box is
\* rounded to integers by Image.crop.  CropBox is the pair of the rows
\* (upper, lower) of the source that bound the image handed to save; rows
\* of the box outside the source are filled with black.
CropBox_Floor(img) ==
    IF 9 * img.w = 16 * img.h
    THEN <<0, img.h>>
    ELSE <<(16 * img.h - 9 * img.w) \div 32,
           img.h - ((16 * img.h - 9 * img.w) \div 32)>>

CropBox(img) ==
    IF 9 * img.w = 16 * img.h
    THEN <<0, img.h>>
    ELSE <<Round(16 * img.h - 9 * img.w, 32),
           Round(16 * img.h + 9 * img.w, 32)>>

CropTo16x9(img) ==
    [img EXCEPT !.h = CropBox(img)[2] - CropBox(img)[1]]

\* img_raw.convert("RGB").save(path): the bytes of the file written
JpegFile(img) == [src |-> img.src, w |-> img.w, h |-> img.h, fmt |-> "JPEG"]

Abs(n) == IF n < 0 THEN 0 - n ELSE n

\* Image.thumbnail((x, y)) of Pillow on an image of size (w, h): the size
\* of the result, keeping the aspect ratio.  round_aspect takes the floor
\* or the ceiling of the scaled side, the one nearer to the aspect ratio
\* (the floor on a tie), and 1 at least; x / y divides by zero for y = 0,
\* and resize refuses a width of 0.
ThumbnailSize(w, h, x, y) ==
    IF x >= w /\ y >= h THEN [exc |-> "none", w |-> w, h |-> h]
    ELSE IF y = 0 THEN [exc |-> "ZeroDivisionError", w |-> 0, h |-> 0]
    ELSE IF x * h >= w * y
    THEN LET lo == (y * w) \div h
             hi == IF (y * w) % h = 0 THEN lo ELSE lo + 1
             n == IF Abs(w * y - lo * h) <= Abs(w * y - hi * h)
                  THEN lo ELSE hi
         IN  [exc |-> "none", w |-> IF n < 1 THEN 1 ELSE n, h |-> y]
    ELSE LET lo == (x * h) \div w
             hi == IF (x * h) % w = 0 THEN lo ELSE lo + 1
             n == IF lo = 0 \/ Abs(w * lo - x * h) * hi
                               <= Abs(w * hi - x * h) * lo
                  THEN lo ELSE hi
         IN  IF x = 0 THEN [exc |-> "ValueError", w |-> 0, h |-> 0]
             ELSE [exc |-> "none", w |-> x, h |-> IF n < 1 THEN 1 ELSE n]

\* lines 214-220: the blurred thumbnail, saved as JPEG, base64-encoded
\* behind the prefix of a data url; a string is the sequence of its parts
Base64(bytes) ==
    [b64 |-> bytes.src, w |-> bytes.w, h |-> bytes.h, fmt |-> bytes.fmt]
DataUrl(img) ==
    <<"data:image/jpg;base64,", Base64(JpegFile(img))>>

Exists(c, path) == path \in DOMAIN c
WriteFile(c, path, bytes) ==
    [p \in DOMAIN c \cup {path} |-> IF p = path THEN bytes ELSE c[p]]
RemoveFile(c, path) == [p \in DOMAIN c \ {path} |-> c[p]]

----------------------------------------------------------------------------
(* The machine state as one record, and the bookkeeping of calls *)

st == [cache |-> cache, handler |-> handler, local |-> local, pc |-> pc,
       frame |-> frame, raw |-> raw, scan |-> scan, out |-> out,
       prev |-> prev, media |-> media]

Unset == [src |-> "unset", w |-> 0, h |-> 0]

NoFrame == [fn |-> "none", obj |-> "handler", skip |-> FALSE, url2 |-> None]
NoRaw == [url |-> None, i |-> 0, log |-> <<>>, sleeps |-> <<>>]
NoScan == [on |-> FALSE, index_name |-> "none", page |-> <<>>, offset |-> 0]

\* op: the operation; status, exc: how it ended; calls: download_raw calls
\* it made; url, kind, fb, log, sleeps, ret, rawexc: argument, item_type and
\* fallback of self, requests.get outcomes, sleeps and result of the last
\* download_raw call; path: the file the operation addressed; visited: the
\* entities a validation pass handed to the store; skip: the skip_existing
\* argument of the store method; data: the string get_vid_base64_blur
\* returned; box: the rows of the source that download_video_thumb kept;
\* writes: the files the operation saved
NoOut == [op |-> "none", status |-> "none", exc |-> "none", calls |-> 0,
          skip |-> FALSE,
          url |-> None, kind |-> "video", fb |-> NoFallback, log |-> <<>>,
          sleeps |-> <<>>, ret |-> Unset, rawexc |-> "none", path |-> <<>>,
          visited |-> 0, data |-> <<>>, box |-> <<0, 0>>, writes |-> 0]

Self(s) == IF s.frame.obj = "handler" THEN s.handler ELSE s.local

SetItemType(s, t) ==
    IF s.frame.obj = "handler"
    THEN [s EXCEPT !.handler.item_type = t]
    ELSE [s EXCEPT !.local.item_type = t]

\* an exception leaves every frame up to the caller of the operation
Raise(s, e) ==
    [s EXCEPT !.pc = "idle", !.frame = NoFrame, !.raw = NoRaw,
              !.scan = NoScan, !.local = NoHandler,
              !.out.status = "raised", !.out.exc = e]

\* a store method returns: to the validator's loop, or to the caller
Return(s) ==
    IF s.scan.on
    THEN [s EXCEPT !.pc = "scan", !.frame = NoFrame, !.raw = NoRaw,
                   !.local = NoHandler]
    ELSE [s EXCEPT !.pc = "idle", !.frame = NoFrame, !.raw = NoRaw,
                   !.local = NoHandler, !.out.status = "returned"]

----------------------------------------------------------------------------
(* ThumbManagerBase.download_raw *)

\* entry of download_raw(url)
BeginRaw(s, url) ==
    [s EXCEPT !.raw = [NoRaw EXCEPT !.url = url],
              !.out.calls = @ + 1, !.out.url = url,
              !.out.kind = Self(s).item_type, !.out.fb = Self(s).fallback,
              !.out.log = <<>>, !.out.sleeps = <<>>, !.out.ret = Unset,
              !.out.rawexc = "none"]

\* download_raw leaves with the value or exception R
EndRaw(s, R) ==
    [s EXCEPT !.out.log = s.raw.log, !.out.sleeps = s.raw.sleeps,
              !.out.ret = R.val, !.out.rawexc = R.exc]

\* The outcomes and sleeps of a call are history, kept for the calls made
\* to download_raw itself; inside a store method only i is kept.
Logged(s, o) ==
    IF s.frame.fn = "download_raw"
    THEN [s EXCEPT !.raw.log = Append(@, o)] ELSE s
Slept(s, t) ==
    IF s.frame.fn = "download_raw"
    THEN [s EXCEPT !.raw.sleeps = Append(@, t)] ELSE s

\* the loop running over range(4)
RawLoopNext_Range4(s) ==
    IF s.raw.i + 1 < MaxAttempts + 1
    THEN [t |-> "get", s |-> [s EXCEPT !.raw.i = @ + 1]]
    ELSE [t |-> "end", s |-> s, R |-> Returned(PyFalse)]

\* the for loop: i runs over range(3), then `return False`
RawLoopNext(s) ==
    IF s.raw.i + 1 < MaxAttempts
    THEN [t |-> "get", s |-> [s EXCEPT !.raw.i = @ + 1]]
    ELSE [t |-> "end", s |-> s, R |-> Returned(PyFalse)]

\* download_raw that treats a 404 like any other error status
download_raw_Retry404(s, o) ==
    LET s1 == Logged(s, o)
    IN  CASE o = "ok_image" ->
               [t |-> "end", s |-> s1, R |-> Returned(RemoteImage(s.raw.url))]
          [] o = "ok_undecodable" ->
               [t |-> "end", s |-> s1, R |-> get_fallback(Self(s))]
          [] o = "404" -> RawLoopNext(s1)
          [] o = "other_status" -> RawLoopNext(s1)
          [] o = "neterr" ->
               RawLoopNext(Slept(s1, SleepTime(s.raw.i)))

\* one iteration of the loop, given the outcome o of requests.get:
\* either download_raw ends with R, or the next requests.get is issued
download_raw(s, o) ==
    LET s1 == Logged(s, o)
    IN  CASE o = "ok_image" ->
               [t |-> "end", s |-> s1, R |-> Returned(RemoteImage(s.raw.url))]
          [] o = "ok_undecodable" ->
               [t |-> "end", s |-> s1, R |-> get_fallback(Self(s))]
          [] o = "404" ->
               [t |-> "end", s |-> s1, R |-> get_fallback(Self(s))]
          [] o = "other_status" -> RawLoopNext(s1)
          [] o = "neterr" ->
               RawLoopNext(Slept(s1, SleepTime(s.raw.i)))

----------------------------------------------------------------------------
(* ThumbManager: the store methods.  XAfterRaw is the rest of method X     *)
(* once its download_raw call has ended with R.                            *)

\* a save that writes whatever it is handed
SaveError_WriteAnything(s, path, img) == "none"

\* the exception of img_raw.convert("RGB").save(path), "none" if it succeeds:
\* False has no attribute convert, and an image without rows is not written
\* as JPEG.  The directories of the cache exist: download_video_thumb
\* creates the shard folder before it fetches.
SaveError(s, path, img) ==
    IF ~IsImage(img) THEN "AttributeError"
    ELSE IF img.w = 0 \/ img.h = 0 THEN "ValueError"
    ELSE "none"

SaveImage(s, path, img) ==
    IF SaveError(s, path, img) # "none"
    THEN Raise(s, SaveError(s, path, img))
    ELSE Return([s EXCEPT !.cache = WriteFile(@, path, JpegFile(img)),
                         !.out.writes = @ + 1])

VideoAfterRaw(s, R) ==
    IF R.exc # "none" THEN Raise(s, R.exc)
    ELSE IF ~IsImage(R.val) THEN Raise(s, "AttributeError")
    ELSE SaveImage([s EXCEPT !.out.box = CropBox(R.val)],
                   vid_thumb_path(Self(s), TRUE), CropTo16x9(R.val))

PlaylistAfterRaw(s, R) ==
    IF R.exc # "none" THEN Raise(s, R.exc)
    ELSE SaveImage(s, PlaylistThumbPath(Self(s)), R.val)

BannerAfterRaw(s, R) ==
    IF R.exc # "none" THEN Raise(s, R.exc)
    ELSE SaveImage(s, ChannelBannerPath(Self(s)), R.val)

\* the call download_raw(url) up to its first requests.get: it ends at
\* once for a url that is None or empty
CallRaw(s, url) ==
    LET s1 == BeginRaw(s, url)
    IN  IF Falsy(url)
        THEN LET R == get_fallback(Self(s1))
             IN  [t |-> "end", s |-> EndRaw(s1, R), R |-> R]
        ELSE [t |-> "get", s |-> [s1 EXCEPT !.pc = "http"]]

\* download_video_thumb without the os.path.exists test
download_video_thumb_NoSkip(s0, url, skip_existing) ==
    LET s == [s0 EXCEPT !.frame.fn = "video", !.frame.skip = skip_existing,
                        !.out.skip = skip_existing,
                        !.out.path = vid_thumb_path(Self(s0), TRUE)]
        r == CallRaw(s, url)
    IN  IF r.t = "end" THEN VideoAfterRaw(r.s, r.R) ELSE r.s

download_video_thumb(s0, url, skip_existing) ==
    LET s == [s0 EXCEPT !.frame.fn = "video", !.frame.skip = skip_existing,
                        !.out.skip = skip_existing,
                        !.out.path = vid_thumb_path(Self(s0), TRUE)]
        thumb_path == vid_thumb_path(Self(s), TRUE)
    IN  IF skip_existing /\ Exists(s.cache, thumb_path)
        THEN Return(s)
        ELSE LET r == CallRaw(s, url)
             IN  IF r.t = "end" THEN VideoAfterRaw(r.s, r.R) ELSE r.s

download_playlist_thumb(s0, url, skip_existing) ==
    LET s == [s0 EXCEPT !.frame.fn = "playlist", !.frame.skip = skip_existing,
                        !.out.skip = skip_existing,
                        !.out.path = PlaylistThumbPath(Self(s0))]
        thumb_path == PlaylistThumbPath(Self(s))
    IN  IF skip_existing /\ Exists(s.cache, thumb_path)
        THEN Return(s)
        ELSE LET r == CallRaw(s, url)
             IN  IF r.t = "end" THEN PlaylistAfterRaw(r.s, r.R) ELSE r.s

_download_channel_banner(s0, channel_banner, skip_existing) ==
    LET banner_path == ChannelBannerPath(Self(s0))
        s == SetItemType([s0 EXCEPT !.frame.fn = "banner",
                                    !.frame.skip = skip_existing,
                                    !.frame.url2 = None,
                                    !.out.path = banner_path], "banner")
    IN  IF skip_existing /\ Exists(s.cache, banner_path)
        THEN Return(s)
        ELSE LET r == CallRaw(s, channel_banner)
             IN  IF r.t = "end" THEN BannerAfterRaw(r.s, r.R) ELSE r.s

\* the rest of download_channel_art once _download_channel_thumb returned
ChannelArtAfterThumb(s) ==
    _download_channel_banner(s, s.frame.url2, s.frame.skip)

IconAfterRaw(s, R) ==
    LET thumb_path == ChannelThumbPath(Self(s))
    IN  IF R.exc # "none" THEN Raise(s, R.exc)
        ELSE IF SaveError(s, thumb_path, R.val) # "none"
        THEN Raise(s, SaveError(s, thumb_path, R.val))
        ELSE ChannelArtAfterThumb(
                 [s EXCEPT !.cache = WriteFile(@, thumb_path,
                                               JpegFile(R.val)),
                           !.out.writes = @ + 1])

_download_channel_thumb(s0, channel_thumb, skip_existing) ==
    LET thumb_path == ChannelThumbPath(Self(s0))
        s == SetItemType([s0 EXCEPT !.frame.fn = "icon",
                                    !.frame.skip = skip_existing,
                                    !.out.skip = skip_existing,
                                    !.out.path = thumb_path], "icon")
    IN  IF skip_existing /\ Exists(s.cache, thumb_path)
        THEN ChannelArtAfterThumb(s)
        ELSE LET r == CallRaw(s, channel_thumb)
             IN  IF r.t = "end" THEN IconAfterRaw(r.s, r.R) ELSE r.s

\* urls = (channel_thumb, channel_banner)
download_channel_art(s, channel_thumb, channel_banner, skip_existing) ==
    _download_channel_thumb([s EXCEPT !.frame.url2 = channel_banner],
                            channel_thumb, skip_existing)

\* the caller's continuation of a download_raw call that ended with R
AfterRaw(s, R) ==
    CASE s.frame.fn = "video" -> VideoAfterRaw(s, R)
      [] s.frame.fn = "icon" -> IconAfterRaw(s, R)
      [] s.frame.fn = "banner" -> BannerAfterRaw(s, R)
      [] s.frame.fn = "playlist" -> PlaylistAfterRaw(s, R)
      [] OTHER -> IF R.exc # "none" THEN Raise(s, R.exc) ELSE Return(s)

----------------------------------------------------------------------------
(* The remaining ThumbManager methods *)

delete_video_thumb(s) ==
    LET thumb_path == vid_thumb_path(Self(s), FALSE)
        to_delete == Join(CACHE_DIR, thumb_path)
    IN  Return([s EXCEPT !.out.path = to_delete,
                         !.cache = IF Exists(@, to_delete)
                                   THEN RemoveFile(@, to_delete) ELSE @])

\* delete_channel_thumb that leaves the banner file
delete_channel_thumb_KeepBanner(s) ==
    LET thumb == ChannelThumbPath(Self(s))
        c1 == IF Exists(s.cache, thumb)
              THEN RemoveFile(s.cache, thumb) ELSE s.cache
    IN  Return([s EXCEPT !.out.path = thumb, !.cache = c1])

delete_channel_thumb(s) ==
    LET thumb == ChannelThumbPath(Self(s))
        banner == ChannelBannerPath(Self(s))
        c1 == IF Exists(s.cache, thumb)
              THEN RemoveFile(s.cache, thumb) ELSE s.cache
        c2 == IF Exists(c1, banner) THEN RemoveFile(c1, banner) ELSE c1
    IN  Return([s EXCEPT !.out.path = thumb, !.cache = c2])

delete_playlist_thumb(s) ==
    LET thumb_path == PlaylistThumbPath(Self(s))
    IN  Return([s EXCEPT !.out.path = thumb_path,
                         !.cache = IF Exists(@, thumb_path)
                                   THEN RemoveFile(@, thumb_path) ELSE @])

\* Image.open(file_path) raises FileNotFoundError for a missing file
get_vid_base64_blur(s) ==
    LET file_path == Join(CACHE_DIR, vid_thumb_path(Self(s), FALSE))
        s1 == [s EXCEPT !.out.path = file_path]
    IN  IF ~Exists(s.cache, file_path)
        THEN Raise(s1, "FileNotFoundError")
        ELSE LET img_raw == s.cache[file_path]
                 size == ThumbnailSize(img_raw.w, img_raw.h,
                                       img_raw.w \div 20, img_raw.h \div 20)
                 img_blur == [src |-> img_raw.src, w |-> size.w,
                              h |-> size.h]
             IN  IF size.exc # "none" THEN Raise(s1, size.exc)
                 ELSE Return([s1 EXCEPT !.out.data = DataUrl(img_blur)])

\* ThumbManager.download(url): for a channel url is the pair of urls
download(s, url, url2) ==
    CASE Self(s).item_type = "video" -> download_video_thumb(s, url, FALSE)
      [] Self(s).item_type = "channel" ->
             download_channel_art(s, url, url2, FALSE)
      [] Self(s).item_type = "playlist" ->
             download_playlist_thumb(s, url, FALSE)
      [] OTHER -> Return(s)

delete(s) ==
    CASE Self(s).item_type = "video" -> delete_video_thumb(s)
      [] Self(s).item_type = "channel" -> delete_channel_thumb(s)
      [] Self(s).item_type = "playlist" -> delete_playlist_thumb(s)
      [] OTHER -> Return(s)

----------------------------------------------------------------------------
(* The search index and ThumbValidator *)

VideoIndex ==
    [i \in 1..NumVideos |->
        [youtube_id |-> VideoIdList[i],
         vid_thumb_url |-> CASE i = 1 -> Url1 [] i = 2 -> Url2
                             [] i = 3 -> None [] OTHER -> Url2,
         active |-> i # 2]]

ChannelIndex ==
    [i \in 1..NumChannels |->
        [channel_id |-> ChannelIdList[i],
         channel_thumb_url |-> IF i = 1 THEN Url1 ELSE None,
         channel_banner_url |-> IF i = 1 THEN EmptyUrl ELSE Url2,
         active |-> TRUE]]

PlaylistIndex ==
    [i \in 1..NumPlaylists |->
        [playlist_id |-> PlaylistIdList[i],
         playlist_thumbnail |-> Url2,
         active |-> TRUE]]

IndexOf(index_name) ==
    CASE index_name = "ta_video" -> VideoIndex
      [] index_name = "ta_channel" -> ChannelIndex
      [] OTHER -> PlaylistIndex

\* the query of download_missing_*: the active entities, sorted by id
ActiveHits(index_name) == SelectSeq(IndexOf(index_name), LAMBDA e : e.active)

Min(a, b) == IF a < b THEN a ELSE b

\* IndexPaginate: the page of hits that follows the first `offset` hits
PageOf(index_name, offset) ==
    LET hits == ActiveHits(index_name)
    IN  SubSeq(hits, offset + 1, Min(offset + PageSize, Len(hits)))

\* ThumbValidator.download_missing: videos, then channels, then playlists
NextIndex(index_name) ==
    CASE index_name = "ta_video" -> "ta_channel"
      [] index_name = "ta_channel" -> "ta_playlist"
      [] OTHER -> "none"

download_missing(s) ==
    [s EXCEPT !.pc = "scan",
              !.scan = [on |-> TRUE, index_name |-> "ta_video",
                        page |-> <<>>, offset |-> 0]]

\* IndexPaginate.get_results: query the next page and hand it to the
\* callback; an empty page ends the scan of this index
paginate(s) ==
    LET hits == PageOf(s.scan.index_name, s.scan.offset)
    IN  IF hits # <<>>
        THEN [s EXCEPT !.scan.page = hits, !.scan.offset = @ + Len(hits)]
        ELSE IF NextIndex(s.scan.index_name) # "none"
        THEN [s EXCEPT !.scan.index_name = NextIndex(@), !.scan.offset = 0]
        ELSE Return([s EXCEPT !.scan = NoScan])

\* ValidatorCallback.run handing skip_existing=False to the store
ValidatorCallback_NoSkip(s0) ==
    LET e == Head(s0.scan.page)
        s == [s0 EXCEPT !.scan.page = Tail(@), !.frame.obj = "local",
                        !.out.visited = @ + 1]
    IN  CASE s.scan.index_name = "ta_video" ->
               download_video_thumb(
                   [s EXCEPT !.local = ThumbManager(e.youtube_id, "video",
                                                    NoFallback)],
                   e.vid_thumb_url, FALSE)
          [] s.scan.index_name = "ta_channel" ->
               download_channel_art(
                   [s EXCEPT !.local = ThumbManager(e.channel_id, "video",
                                                    NoFallback)],
                   e.channel_thumb_url, e.channel_banner_url, FALSE)
          [] OTHER ->
               download_playlist_thumb(
                   [s EXCEPT !.local = ThumbManager(e.playlist_id, "video",
                                                    NoFallback)],
                   e.playlist_thumbnail, FALSE)

\* ValidatorCallback.run: the body of the for loop for the next hit
ValidatorCallback(s0) ==
    LET e == Head(s0.scan.page)
        s == [s0 EXCEPT !.scan.page = Tail(@), !.frame.obj = "local",
                        !.out.visited = @ + 1]
    IN  CASE s.scan.index_name = "ta_video" ->
               download_video_thumb(
                   [s EXCEPT !.local = ThumbManager(e.youtube_id, "video",
                                                    NoFallback)],
                   e.vid_thumb_url, TRUE)
          [] s.scan.index_name = "ta_channel" ->
               download_channel_art(
                   [s EXCEPT !.local = ThumbManager(e.channel_id, "video",
                                                    NoFallback)],
                   e.channel_thumb_url, e.channel_banner_url, TRUE)
          [] OTHER ->
               download_playlist_thumb(
                   [s EXCEPT !.local = ThumbManager(e.playlist_id, "video",
                                                    NoFallback)],
                   e.playlist_thumbnail, TRUE)

----------------------------------------------------------------------------
(* ThumbFilesystem *)

MEDIA_DIR == <<"/", "youtube">>

\* PendingList.all_videos: the pending and the indexed videos
all_videos ==
    [i \in 1..NumVideos |->
        [youtube_id |-> VideoIdList[i],
         media_url |-> <<"UC", "/">> \o VideoIdList[i] \o <<".mp4">>]]

get_thumb_list ==
    [i \in 1..Len(all_videos) |->
        LET video == all_videos[i]
            video_id == video.youtube_id
        IN  [media_url |-> Join(MEDIA_DIR, video.media_url),
             thumb_path |->
                 Join(CACHE_DIR,
                      vid_thumb_path(ThumbManager(video_id, "video",
                                                  NoFallback), FALSE))]]

\* the media files of the manifest, and the cover art they hold before any
\* sync
MediaFiles == {get_thumb_list[i].media_url : i \in 1..Len(get_thumb_list)}
PrevCovr == <<[data |-> [src |-> "previous-cover", w |-> 1, h |-> 1,
                         fmt |-> "PNG"],
               imageformat |-> "PNG"]>>

FORMAT_JPEG == "JPEG"

\* a cover tagged as PNG
MP4Cover_Png(data, imageformat) ==
    [data |-> data, imageformat |-> "PNG"]

MP4Cover(data, imageformat) ==
    [data |-> data, imageformat |-> imageformat]

\* a loop body that passes over an entry without thumbnail file
EmbedOne_SkipMissing(s, video) ==
    IF ~Exists(s.cache, video.thumb_path)
    THEN s
    ELSE [s EXCEPT !.media[video.media_url] =
                       <<MP4Cover(s.cache[video.thumb_path], FORMAT_JPEG)>>,
                   !.out.visited = @ + 1]

\* the body of the for loop of _embed_thumbs for one entry: open raises
\* FileNotFoundError for a missing thumbnail, before the media file is
\* saved
EmbedOne(s, video) ==
    IF ~Exists(s.cache, video.thumb_path)
    THEN Raise([s EXCEPT !.out.path = video.thumb_path],
               "FileNotFoundError")
    ELSE [s EXCEPT !.media[video.media_url] =
                       <<MP4Cover(s.cache[video.thumb_path], FORMAT_JPEG)>>,
                   !.out.visited = @ + 1]

\* the for loop from the entry number `counter` on; an exception leaves it
RECURSIVE EmbedFrom(_, _, _)
EmbedFrom(s, video_list, counter) ==
    IF counter > Len(video_list)
    THEN Return(s)
    ELSE LET s1 == EmbedOne(s, video_list[counter])
         IN  IF s1.out.status = "raised" THEN s1
             ELSE EmbedFrom(s1, video_list, counter + 1)

_embed_thumbs(s, video_list) == EmbedFrom(s, video_list, 1)

\* ThumbFilesystem.sync
sync(s) == _embed_thumbs(s, get_thumb_list)

----------------------------------------------------------------------------
(* Two processes that run _validate_videos at the same time *)

Procs == {1, 2}

\* what Image.save holds between open(path, "w+b") and the end of the
\* encoder's writes; written: this pass has saved a file; after: the other
\* pass had saved before this one did
NoSave == [path |-> <<>>, bytes |-> JpegFile(Unset), resume |-> "idle",
           written |-> FALSE, after |-> FALSE]

NoProc == [local |-> NoHandler, pc |-> "idle", frame |-> NoFrame,
           raw |-> NoRaw, scan |-> NoScan, out |-> NoOut, prev |-> "none",
           save |-> NoSave]

\* the state as the process p sees it, and the part of it that is its own
View(p) ==
    [cache |-> cache, handler |-> handler, local |-> procs[p].local,
     pc |-> procs[p].pc, frame |-> procs[p].frame, raw |-> procs[p].raw,
     scan |-> procs[p].scan, out |-> procs[p].out, prev |-> procs[p].prev,
     media |-> media]

Private(s, save) ==
    [local |-> s.local, pc |-> s.pc, frame |-> s.frame, raw |-> s.raw,
     scan |-> s.scan, out |-> s.out, prev |-> s.prev, save |-> save]

\* a file just opened with "w+b", and a file that two writers wrote into
EmptyFile == [src |-> "empty", w |-> 0, h |-> 0, fmt |-> "none"]
TornFile == [src |-> "torn", w |-> 0, h |-> 0, fmt |-> "JPEG"]

----------------------------------------------------------------------------
(* The state machine *)

Assign(s) ==
    /\ cache' = s.cache
    /\ handler' = s.handler
    /\ local' = s.local
    /\ pc' = s.pc
    /\ frame' = s.frame
    /\ raw' = s.raw
    /\ scan' = s.scan
    /\ out' = s.out
    /\ prev' = s.prev
    /\ focus' = focus
    /\ media' = s.media
    /\ procs' = procs

\* a caller starts operation op on the object obj ("handler" or "local")
Start(op, obj) ==
    [st EXCEPT !.out = [NoOut EXCEPT !.op = op],
               !.prev = IF out.op = "download_missing"
                        THEN out.status ELSE "none",
               !.frame = [NoFrame EXCEPT !.obj = obj]]

AllIds == VideoIds \cup ChannelIds \cup PlaylistIds

\* the url of an entity's artwork, as callers read it from the entity
VideoUrl(id) ==
    IF \E i \in 1..NumVideos : i % 2 = 1 /\ VideoIdList[i] = id
    THEN Url1 ELSE Url2
ArtUrls(id) ==
    {None, IF id \in VideoIds THEN VideoUrl(id)
           ELSE IF id \in ChannelIds THEN Url1 ELSE Url2}
BannerUrls(id) == IF id \in ChannelIds THEN {None, Url2} ELSE {None}

\* the objects callers construct: ThumbManager(id), ThumbManager(id,
\* item_type="channel"), ...
Handlers ==
    {ThumbManager(id, "video", NoFallback) : id \in AllIds}
    \cup {ThumbManager(id, "channel", NoFallback) : id \in ChannelIds}
    \cup {ThumbManager(id, "playlist", NoFallback) : id \in PlaylistIds}

\* the objects whose download_raw is called directly
RawHandlers ==
    {ThumbManager(VideoIdList[1], t, fb) :
        t \in ItemTypes, fb \in {NoFallback, CustomFallbackPath}}

\* the objects ThumbManager(id, item_type=kind) of the callers of
\* download(url) and delete()
TypedHandlers ==
    {ThumbManager(id, "video", NoFallback) : id \in VideoIds}
    \cup {ThumbManager(id, "channel", NoFallback) : id \in ChannelIds}
    \cup {ThumbManager(id, "playlist", NoFallback) : id \in PlaylistIds}

InitCommon ==
    /\ cache = <<>>
    /\ local = NoHandler
    /\ pc = "idle"
    /\ frame = NoFrame
    /\ raw = NoRaw
    /\ scan = NoScan
    /\ out = NoOut
    /\ prev = "none"
    /\ media = [m \in MediaFiles |-> PrevCovr]
    /\ procs = [p \in Procs |-> NoProc]

Init ==
    /\ InitCommon
    /\ focus \in {F \in SUBSET AllIds : Cardinality(F) = MaxEntities}
    /\ handler \in {h \in Handlers : h.item_id \in focus}

Construct ==
    /\ pc = "idle"
    /\ \E h \in Handlers :
          /\ h.item_id \in focus
          /\ Assign([Start("construct", "handler") EXCEPT
                         !.handler = h, !.out.status = "returned"])

CallDownload ==
    /\ pc = "idle"
    /\ handler.item_type = "video" => handler.item_id \in VideoIds
    /\ \E url \in ArtUrls(handler.item_id),
          url2 \in BannerUrls(handler.item_id) :
          /\ handler.item_type # "channel" => url2 = None
          /\ Assign(download(Start("download", "handler"), url, url2))

CallDelete ==
    /\ pc = "idle"
    /\ handler.item_type = "video" => handler.item_id \in VideoIds
    /\ Assign(delete(Start("delete", "handler")))

CallDownloadVideoThumb ==
    /\ pc = "idle"
    /\ handler.item_id \in VideoIds
    /\ \E url \in ArtUrls(handler.item_id), skip_existing \in BOOLEAN :
          Assign(download_video_thumb(
                     Start("download_video_thumb", "handler"), url,
                     skip_existing))

CallDownloadChannelArt ==
    /\ pc = "idle"
    /\ handler.item_id \in ChannelIds
    /\ \E url \in ArtUrls(handler.item_id),
          url2 \in BannerUrls(handler.item_id), skip_existing \in BOOLEAN :
          Assign(download_channel_art(
                     Start("download_channel_art", "handler"), url, url2,
                     skip_existing))

CallDownloadPlaylistThumb ==
    /\ pc = "idle"
    /\ handler.item_id \in PlaylistIds
    /\ \E url \in ArtUrls(handler.item_id), skip_existing \in BOOLEAN :
          Assign(download_playlist_thumb(
                     Start("download_playlist_thumb", "handler"), url,
                     skip_existing))

CallDeleteVideoThumb ==
    /\ pc = "idle"
    /\ handler.item_id \in VideoIds
    /\ Assign(delete_video_thumb(Start("delete_video_thumb", "handler")))

CallDeleteChannelThumb ==
    /\ pc = "idle"
    /\ handler.item_id \in ChannelIds
    /\ Assign(delete_channel_thumb(Start("delete_channel_thumb", "handler")))

CallDeletePlaylistThumb ==
    /\ pc = "idle"
    /\ handler.item_id \in PlaylistIds
    /\ Assign(delete_playlist_thumb(
                  Start("delete_playlist_thumb", "handler")))

CallGetVidBase64Blur ==
    /\ pc = "idle"
    /\ handler.item_id \in VideoIds
    /\ Assign(get_vid_base64_blur(Start("get_vid_base64_blur", "handler")))

\* requests.get answers; the code runs on to the next requests.get or to
\* the end of the operation
HttpAnswer ==
    /\ pc = "http"
    /\ \E o \in Outcomes :
          LET r == download_raw(st, o)
          IN  Assign(IF r.t = "end" THEN AfterRaw(EndRaw(r.s, r.R), r.R)
                     ELSE r.s)

Next ==
    \/ Construct
    \/ CallDownload
    \/ CallDelete
    \/ CallDownloadVideoThumb
    \/ CallDownloadChannelArt
    \/ CallDownloadPlaylistThumb
    \/ CallDeleteVideoThumb
    \/ CallDeleteChannelThumb
    \/ CallDeletePlaylistThumb
    \/ CallGetVidBase64Blur
    \/ HttpAnswer

Spec == Init /\ [][Next]_vars

----------------------------------------------------------------------------
(* download_raw called on its own, for every item_type and fallback *)

InitRaw ==
    /\ InitCommon
    /\ focus = {}
    /\ handler \in RawHandlers

ConstructBase ==
    /\ pc = "idle"
    /\ \E h \in RawHandlers :
          Assign([Start("construct", "handler") EXCEPT
                      !.handler = h, !.out.status = "returned"])

CallDownloadRaw ==
    /\ pc = "idle"
    /\ \E url \in Urls :
          LET r == CallRaw([Start("download_raw", "handler") EXCEPT
                                !.frame.fn = "download_raw"], url)
          IN  Assign(IF r.t = "end" THEN AfterRaw(r.s, r.R) ELSE r.s)

NextRaw ==
    \/ ConstructBase
    \/ CallDownloadRaw
    \/ HttpAnswer

SpecRaw == InitRaw /\ [][NextRaw]_vars

\* every requests.get is answered
FairSpecRaw == SpecRaw /\ WF_vars(HttpAnswer)

----------------------------------------------------------------------------
(* Validation passes, among deletes that callers run on objects            *)
(* constructed for the one call                                            *)

InitScan ==
    /\ InitCommon
    /\ focus = {}
    /\ handler = NoHandler

RunDelete ==
    /\ pc = "idle"
    /\ \E h \in TypedHandlers :
          Assign(delete([Start("delete", "local") EXCEPT !.local = h]))

CallDownloadMissing ==
    /\ pc = "idle"
    /\ Assign(download_missing(Start("download_missing", "local")))

ScanPage ==
    /\ pc = "scan"
    /\ scan.page = <<>>
    /\ Assign(paginate(st))

ScanVisit ==
    /\ pc = "scan"
    /\ scan.page # <<>>
    /\ Assign(ValidatorCallback(st))

NextScan ==
    \/ RunDelete
    \/ CallDownloadMissing
    \/ ScanPage
    \/ ScanVisit
    \/ HttpAnswer

SpecScan == InitScan /\ [][NextScan]_vars

----------------------------------------------------------------------------
(* download_video_thumb on remote images of every size *)

\* sizes of the images the remote host serves: the small ones and some of
\* the sizes of real thumbnails
SourceSizes ==
    ((1..MaxWidth) \X (1..MaxHeight))
        \cup {<<1000, 2000>>, <<1600, 900>>, <<1600, 600>>, <<480, 360>>}

SourceImage(size) == [src |-> "remote-1", w |-> size[1], h |-> size[2]]

InitCrop ==
    /\ InitCommon
    /\ focus = {}
    /\ handler = ThumbManager(VideoIdList[1], "video", NoFallback)

\* requests.get answers 2xx with a decodable image of some size
HttpAnswerImage ==
    /\ pc = "http"
    /\ \E size \in SourceSizes :
          LET R == Returned(SourceImage(size))
          IN  Assign(AfterRaw(EndRaw(Logged(st, "ok_image"), R), R))

NextCrop ==
    \/ CallDownloadVideoThumb
    \/ HttpAnswerImage

SpecCrop == InitCrop /\ [][NextCrop]_vars

----------------------------------------------------------------------------
(* ThumbFilesystem.sync, among downloads and deletes of video thumbnails   *)
(* that callers run on objects constructed for the one call                *)

InitEmbed ==
    /\ InitCommon
    /\ focus = {}
    /\ handler = NoHandler

RunDownloadVideoThumb ==
    /\ pc = "idle"
    /\ \E id \in VideoIds :
          Assign(download_video_thumb(
                     [Start("download_video_thumb", "local") EXCEPT
                          !.local = ThumbManager(id, "video", NoFallback)],
                     VideoUrl(id), FALSE))

RunDeleteVideoThumb ==
    /\ pc = "idle"
    /\ \E id \in VideoIds :
          Assign(delete_video_thumb(
                     [Start("delete_video_thumb", "local") EXCEPT
                          !.local = ThumbManager(id, "video", NoFallback)]))

CallSync ==
    /\ pc = "idle"
    /\ Assign(sync(Start("sync", "local")))

NextEmbed ==
    \/ RunDownloadVideoThumb
    \/ RunDeleteVideoThumb
    \/ CallSync
    \/ HttpAnswer

SpecEmbed == InitEmbed /\ [][NextEmbed]_vars

----------------------------------------------------------------------------
(* Two validation passes over the same page of the video index, run by two *)
(* processes at the same time                                              *)

\* the process p has run from the state `before` to the state `after`.  A
\* file it saved on the way is not written in one piece: save opens the
\* path, which leaves an empty file, and writes the bytes afterwards.
Commit(p, before, after) ==
    /\ IF after.out.writes > before.out.writes
       THEN /\ cache' = WriteFile(cache, after.out.path, EmptyFile)
            /\ procs' = [procs EXCEPT ![p] =
                   Private([after EXCEPT !.pc = "save"],
                           [procs[p].save EXCEPT
                                !.path = after.out.path,
                                !.bytes = after.cache[after.out.path],
                                !.resume = after.pc])]
       ELSE /\ cache' = after.cache
            /\ procs' = [procs EXCEPT ![p] = Private(after, procs[p].save)]
    /\ UNCHANGED <<handler, local, pc, frame, raw, scan, out, prev, focus,
                   media>>

\* the bytes at a path after `bytes` were written from its start over the
\* content `old`: over another writer's bytes the result may be a mix
Overwrite(old, bytes) ==
    IF old = EmptyFile \/ old = bytes THEN {bytes} ELSE {bytes, TornFile}

\* ValidatorCallback(source, "ta_video").run() is called with a page of
\* the video index
RaceCall(p) ==
    /\ procs[p].pc = "idle"
    /\ procs[p].out.op = "none"
    /\ Commit(p, View(p),
              [View(p) EXCEPT
                   !.out = [NoOut EXCEPT !.op = "_validate_videos"],
                   !.frame = [NoFrame EXCEPT !.obj = "local"],
                   !.pc = "scan",
                   !.scan = [on |-> TRUE, index_name |-> "ta_video",
                             page |-> PageOf("ta_video", 0),
                             offset |-> Len(PageOf("ta_video", 0))]])

\* the body of the for loop up to the first requests.get
RaceVisit(p) ==
    /\ procs[p].pc = "scan"
    /\ procs[p].scan.page # <<>>
    /\ Commit(p, View(p), ValidatorCallback(View(p)))

\* the for loop is through
RaceEnd(p) ==
    /\ procs[p].pc = "scan"
    /\ procs[p].scan.page = <<>>
    /\ Commit(p, View(p), Return([View(p) EXCEPT !.scan = NoScan]))

RaceHttpAnswer(p) ==
    /\ procs[p].pc = "http"
    /\ \E o \in Outcomes :
          LET r == download_raw(View(p), o)
          IN  Commit(p, View(p),
                     IF r.t = "end" THEN AfterRaw(EndRaw(r.s, r.R), r.R)
                     ELSE r.s)

\* the encoder writes the bytes into the file that save opened
RaceWrite(p) ==
    /\ procs[p].pc = "save"
    /\ \E bytes \in Overwrite(cache[procs[p].save.path],
                               procs[p].save.bytes) :
          cache' = WriteFile(cache, procs[p].save.path, bytes)
    /\ procs' = [procs EXCEPT
                    ![p].pc = procs[p].save.resume,
                    ![p].save.written = TRUE,
                    ![p].save.after =
                        \E q \in Procs \ {p} : procs[q].save.written]
    /\ UNCHANGED <<handler, local, pc, frame, raw, scan, out, prev, focus,
                   media>>

InitRace ==
    /\ InitCommon
    /\ focus = {}
    /\ handler = NoHandler

NextRace ==
    \/ \E p \in Procs : RaceCall(p)
    \/ \E p \in Procs : RaceVisit(p)
    \/ \E p \in Procs : RaceHttpAnswer(p)
    \/ \E p \in Procs : RaceWrite(p)
    \/ \E p \in Procs : RaceEnd(p)

SpecRace == InitRace /\ [][NextRace]_vars

TypeOK ==
    /\ pc \in {"idle", "http", "scan"}
    /\ raw.i \in 0..(MaxAttempts - 1)

----------------------------------------------------------------------------
(* Properties of download_raw, stated on the download_raw calls of SpecRaw *)

\* a download_raw call made on its own has ended
RawDone == pc = "idle" /\ out.op = "download_raw" /\ out.status # "none"

ValidKinds == {"video", "icon", "banner", "playlist"}
Inconclusive == {"other_status", "neterr"}

\* C1: download_raw never fails: whatever the url and the outcomes of the
\* attempts, a call on an object of one of the four kinds returns, and the
\* value it returns is an image (the fetched or the fallback image).
C1_AlwaysImage ==
    (RawDone /\ out.kind \in ValidKinds) =>
        (out.status = "returned" /\ IsImage(out.ret))

\* C3: the retry cap.  One call makes at most 3 requests.get; a call whose
\* every attempt raised a network error made exactly 3 and returned False;
\* and a call that waits for an answer ends.
C3_RetryCap ==
    /\ [](Len(raw.log) <= 3 /\ Len(out.log) <= 3)
    /\ []((RawDone /\ out.log # <<>>
            /\ \A k \in 1..Len(out.log) : out.log[k] = "neterr")
          => (Len(out.log) = 3 /\ out.status = "returned"
              /\ out.ret = PyFalse))
    /\ ((pc = "http") ~> (pc = "idle"))

C3_Witness ==
    /\ RawDone
    /\ out.log = <<"neterr", "neterr", "neterr">>
    /\ out.ret = PyFalse

\* C4: no retry on a definitive outcome.  A 404, or a 2xx answer that does
\* not decode, is the last attempt of its call, and the call returns the
\* fallback image of its object.
Definitive == {"404", "ok_undecodable"}

C4_NoRetryOnDefinitive ==
    /\ pc = "http" => \A k \in 1..Len(raw.log) : raw.log[k] \in Inconclusive
    /\ RawDone =>
         \A k \in 1..Len(out.log) :
             out.log[k] \in Definitive =>
                 /\ k = Len(out.log)
                 /\ (out.kind \in ValidKinds \/ out.fb # NoFallback) =>
                       /\ out.status = "returned"
                       /\ out.ret = IF out.fb # NoFallback
                                    THEN CustomFallback
                                    ELSE default_map[out.kind]

C4_Witness ==
    /\ RawDone
    /\ out.log = <<"404">>
    /\ out.ret = DefaultVideoThumb

\* C5 as stated: for each of the four kinds, download_raw with no url
\* returns the built-in default image of the kind, without any request.
C5_BuiltinDefault ==
    (RawDone /\ Falsy(out.url) /\ out.kind \in ValidKinds) =>
        /\ out.status = "returned"
        /\ out.log = <<>>
        /\ out.ret = default_map[out.kind]

\* C5, amended: for each of the four kinds, download_raw with no url makes
\* no request and returns the image of the object's explicit fallback if it
\* was constructed with one, else the built-in default image of its kind;
\* video and playlist share their default.
C5_Fallback ==
    /\ default_map["video"] = default_map["playlist"]
    /\ (RawDone /\ Falsy(out.url) /\ out.kind \in ValidKinds) =>
          /\ out.status = "returned"
          /\ out.log = <<>>
          /\ IsImage(out.ret)
          /\ out.ret = IF out.fb # NoFallback THEN CustomFallback
                       ELSE CASE out.kind = "video" -> DefaultVideoThumb
                              [] out.kind = "playlist" -> DefaultVideoThumb
                              [] out.kind = "icon" -> DefaultChannelIcon
                              [] out.kind = "banner" -> DefaultChannelBanner

C5_Witness ==
    /\ RawDone
    /\ out.url = EmptyUrl
    /\ out.kind = "banner"
    /\ out.fb = NoFallback
    /\ out.ret = DefaultChannelBanner

\* C17: no busy retry loop.  Whenever a download_raw call is about to make
\* a further attempt, every earlier attempt of the call (each was
\* inconclusive: a network error or a status that is neither 2xx nor 404)
\* was followed by a sleep, each sleep is positive, and the sleeps do not
\* decrease.
C17_BackoffBeforeRetry ==
    (pc = "http" /\ frame.fn = "download_raw") =>
        /\ Len(raw.sleeps) = Len(raw.log)
        /\ \A k \in 1..Len(raw.sleeps) : raw.sleeps[k] > 0
        /\ \A k \in 1..(Len(raw.sleeps) - 1) :
              raw.sleeps[k] <= raw.sleeps[k + 1]

----------------------------------------------------------------------------
(* Properties of the store methods, stated on the calls of Spec *)

StoreDownloads == {"download_video_thumb", "download_channel_art",
                   "download_playlist_thumb", "download"}

\* an operation named in ops has ended
Done(ops) == pc = "idle" /\ out.op \in ops /\ out.status # "none"

\* C2: when download_raw has returned False, the download method that
\* called it returns normally: no exception leaves the operation.
C2_SentinelHandled ==
    (Done(StoreDownloads) /\ out.ret = PyFalse) => out.status = "returned"

\* C6: download_video_thumb called with skip_existing=True while the file at
\* the video's cache path exists calls download_raw zero times, returns, and
\* leaves every file of the cache as it was.
C6_SkipExisting ==
    [][(/\ pc = "idle"
        /\ out'.op = "download_video_thumb"
        /\ out'.skip
        /\ Exists(cache, vid_thumb_path(handler, TRUE)))
       => (/\ cache' = cache
           /\ out'.calls = 0
           /\ pc' = "idle"
           /\ out'.status = "returned")]_vars

C6_Witness ==
    /\ Done({"download_video_thumb"})
    /\ out.skip
    /\ out.calls = 0
    /\ out.status = "returned"
    /\ Exists(cache, vid_thumb_path(handler, TRUE))

\* C9: download_channel_art carries out the banner step whatever became of
\* the icon step: when the operation has ended the banner step was entered
\* (it is the step that sets item_type to "banner" and addresses the banner
\* file), and without skip_existing an ended operation that fetched the
\* icon also fetched the banner.
C9_BannerIndependent ==
    Done({"download_channel_art"}) =>
        /\ handler.item_type = "banner"
        /\ out.path = ChannelBannerPath(handler)
        /\ ~out.skip => out.calls = 2

\* <cache_root>/videos/<lower(id[0])>/<id>.jpg
CanonicalVideoPath(id) ==
    <<"/", "cache", "/", "videos", "/", Lower(id[1]), "/">> \o id
        \o <<".jpg">>

VideoOps == {"download_video_thumb", "delete_video_thumb",
             "get_vid_base64_blur"}

\* C10: for every video id the path download_video_thumb writes, the path
\* delete_video_thumb removes, the path get_vid_base64_blur reads and the
\* thumb_path of get_thumb_list are the one path
\* <cache_root>/videos/<lower(id[0])>/<id>.jpg, and vid_thumb_path of a
\* handler gives that path whatever ran on the handler before; files under
\* the videos folder exist at such paths only.
C10_CachePath ==
    /\ handler.item_id \in VideoIds =>
          /\ vid_thumb_path(handler, TRUE)
                = CanonicalVideoPath(handler.item_id)
          /\ Join(CACHE_DIR, vid_thumb_path(handler, FALSE))
                = CanonicalVideoPath(handler.item_id)
    /\ (out.op \in VideoOps /\ out.status # "none") =>
          out.path = CanonicalVideoPath(handler.item_id)
    /\ (out.op \in {"download", "delete"} /\ out.status # "none"
            /\ handler.item_type = "video") =>
          out.path = CanonicalVideoPath(handler.item_id)
    /\ \A i \in 1..Len(get_thumb_list) :
          get_thumb_list[i].thumb_path
              = CanonicalVideoPath(all_videos[i].youtube_id)
    /\ \A p \in DOMAIN cache :
          SubSeq(p, 1, Len(VIDEO_DIR)) = VIDEO_DIR =>
              \E id \in VideoIds : p = CanonicalVideoPath(id)

C10_Witness ==
    /\ Done({"get_vid_base64_blur"})
    /\ out.status = "returned"
    /\ handler.item_id = <<"A", "b">>
    /\ DOMAIN cache = {CanonicalVideoPath(<<"A", "b">>)}

\* the cache files of the entity the handler addresses, for each method
EntityFiles(h) ==
    {vid_thumb_path(h, TRUE), ChannelThumbPath(h), ChannelBannerPath(h),
     PlaylistThumbPath(h)}

DeleteOps == {"delete_video_thumb", "delete_channel_thumb",
              "delete_playlist_thumb"}

\* C11: delete_video_thumb, delete_channel_thumb and delete_playlist_thumb
\* return whatever files exist (none of them raises for an absent file), and
\* after they return the files they address do not exist: the video's
\* thumbnail, both the channel's thumbnail and its banner (also when only
\* one of the two existed before), the playlist's thumbnail.
C11_DeleteRemoves ==
    [][(pc = "idle" /\ out'.op \in DeleteOps) =>
          /\ pc' = "idle"
          /\ out'.status = "returned"
          /\ out'.op = "delete_video_thumb" =>
                ~Exists(cache', CanonicalVideoPath(handler.item_id))
          /\ out'.op = "delete_channel_thumb" =>
                /\ ~Exists(cache', ChannelThumbPath(handler))
                /\ ~Exists(cache', ChannelBannerPath(handler))
          /\ out'.op = "delete_playlist_thumb" =>
                ~Exists(cache', PlaylistThumbPath(handler))]_vars

\* a channel's files are gone after delete_channel_thumb, next to the file
\* of another entity
C11_Witness ==
    /\ Done({"delete_channel_thumb"})
    /\ out.status = "returned"
    /\ handler.item_id \in ChannelIds
    /\ ~Exists(cache, ChannelThumbPath(handler))
    /\ ~Exists(cache, ChannelBannerPath(handler))
    /\ cache # <<>>

\* the cache file of the request (entity id, kind of artwork)
SlotKinds == {"video", "icon", "banner", "playlist"}
SlotPath(id, kind) ==
    CASE kind = "video" -> vid_thumb_path([item_id |-> id], TRUE)
      [] kind = "icon" -> ChannelThumbPath([item_id |-> id])
      [] kind = "banner" -> ChannelBannerPath([item_id |-> id])
      [] kind = "playlist" -> PlaylistThumbPath([item_id |-> id])

\* the kinds of artwork an operation on the handler h addresses
KindsOf(op, h) ==
    CASE op \in {"download_video_thumb", "delete_video_thumb"} -> {"video"}
      [] op \in {"download_channel_art", "delete_channel_thumb"} ->
             {"icon", "banner"}
      [] op \in {"download_playlist_thumb", "delete_playlist_thumb"} ->
             {"playlist"}
      [] op \in {"download", "delete"} ->
             CASE h.item_type = "video" -> {"video"}
               [] h.item_type = "playlist" -> {"playlist"}
               [] OTHER -> {"icon", "banner"}
      [] OTHER -> {}

\* the files a step created, removed or rewrote
Changed(c1, c2) ==
    {p \in DOMAIN c1 \cup DOMAIN c2 :
        ~(p \in DOMAIN c1 /\ p \in DOMAIN c2 /\ c1[p] = c2[p])}

\* C12: two distinct requests (entity id, kind) never have the same cache
\* path, and every step of a download or a delete creates, removes or
\* rewrites only files of the entity and the kinds the operation addresses:
\* the files of every other entity and of the other kinds stay as they were.
C12_DisjointFiles ==
    /\ \A id1, id2 \in AllIds : \A k1, k2 \in SlotKinds :
          SlotPath(id1, k1) = SlotPath(id2, k2) => (id1 = id2 /\ k1 = k2)
    /\ [][Changed(cache, cache')
            \subseteq {SlotPath(handler'.item_id, k) :
                          k \in KindsOf(out'.op, handler')}]_vars

\* a download has written the file of one entity next to the file of
\* another
C12_Witness ==
    /\ Done(StoreDownloads)
    /\ out.status = "returned"
    /\ out.calls > 0
    /\ Exists(cache, out.path)
    /\ \E p \in DOMAIN cache : p \notin EntityFiles(handler)

\* C18: get_vid_base64_blur raises the not-found error of the file system
\* when the video has no cached thumbnail, returns a string that begins
\* with data:image/jpg;base64, when it has one, and in both cases leaves
\* every file of the cache as it was.
C18_BlurPreview ==
    [][(pc = "idle" /\ out'.op = "get_vid_base64_blur") =>
          /\ cache' = cache
          /\ pc' = "idle"
          /\ IF Exists(cache, CanonicalVideoPath(handler.item_id))
             THEN /\ out'.status = "returned"
                  /\ Len(out'.data) > 0
                  /\ out'.data[1] = "data:image/jpg;base64,"
             ELSE /\ out'.status = "raised"
                  /\ out'.exc = "FileNotFoundError"]_vars

\* C20: on a ThumbManager constructed with item_type "channel", after a
\* download(urls) call the item_type of the handler is "banner"; and a
\* delete() or download() called on a handler whose item_type is "icon" or
\* "banner" takes no branch of the dispatch: it returns, calls download_raw
\* zero times and leaves every file of the cache as it was.
C20_ItemTypeMutated ==
    /\ []((Done({"download"}) /\ handler.item_id \in ChannelIds
              /\ handler.item_type # "video")
            => handler.item_type = "banner")
    /\ [][(pc = "idle" /\ handler.item_type \in {"icon", "banner"}
              /\ out'.op \in {"download", "delete"})
            => (/\ cache' = cache
                /\ handler' = handler
                /\ out'.calls = 0
                /\ pc' = "idle"
                /\ out'.status = "returned")]_vars

----------------------------------------------------------------------------
(* Properties of the crop, stated on the downloads of SpecCrop *)

\* a download_video_thumb that fetched an image has ended
Fetched ==
    /\ Done({"download_video_thumb"})
    /\ out.calls = 1
    /\ out.log = <<>>
    /\ out.url = Url1
    /\ IsImage(out.ret)

\* 32 times the distance of n rows from offset = (h - w * 9 / 16) / 2
OffsetError32(n, w, h) == Abs(32 * n - (16 * h - 9 * w))

\* C16 as stated: for every source image (w, h) the thumbnail is persisted;
\* with 9 * w = 16 * h it is the source, uncropped; otherwise it has width
\* w and height w * 9 / 16 within a row, and it is the source without
\* (h - w * 9 / 16) / 2 rows, within half a row, at the top and at the
\* bottom: all its rows are rows of the source.
C16_CropRemovesRows ==
    Fetched =>
        LET w == out.ret.w
            h == out.ret.h
        IN  /\ out.status = "returned"
            /\ Exists(cache, out.path)
            /\ cache[out.path].w = w
            /\ IF 9 * w = 16 * h
               THEN cache[out.path].h = h /\ out.box = <<0, h>>
               ELSE /\ Abs(16 * cache[out.path].h - 9 * w) <= 16
                    /\ cache[out.path].h = out.box[2] - out.box[1]
                    /\ 0 <= out.box[1] /\ out.box[2] <= h
                    /\ OffsetError32(out.box[1], w, h) <= 16
                    /\ OffsetError32(h - out.box[2], w, h) <= 16

\* C16, amended: with 9 * w = 16 * h the source is persisted uncropped.
\* Otherwise the image handed to save has width w and the rows from
\* round(offset) to round(h - offset) of the source, offset = (h - w * 9 /
\* 16) / 2, so its height is w * 9 / 16 within a row: for a source taller
\* than 16:9 rows are removed at the top and at the bottom; for a source
\* wider than 16:9 no row is removed and black rows are added above and
\* below.  It is persisted unless it has no row, in which case save raises.
C16_CropBox ==
    Fetched =>
        LET w == out.ret.w
            h == out.ret.h
            upper == out.box[1]
            lower == out.box[2]
        IN  /\ IF 9 * w = 16 * h
               THEN upper = 0 /\ lower = h
               ELSE /\ OffsetError32(upper, w, h) <= 16
                    /\ OffsetError32(h - lower, w, h) <= 16
                    /\ Abs(16 * (lower - upper) - 9 * w) <= 16
            /\ 16 * h >= 9 * w => (0 <= upper /\ lower <= h)
            /\ 16 * h < 9 * w => (upper <= 0 /\ lower >= h)
            /\ IF lower > upper
               THEN /\ out.status = "returned"
                    /\ Exists(cache, out.path)
                    /\ cache[out.path]
                          = JpegFile([src |-> out.ret.src, w |-> w,
                                      h |-> lower - upper])
               ELSE /\ w = 1
                    /\ out.status = "raised"
                    /\ out.exc = "ValueError"

\* the source of 1000x2000 was persisted as 1000x562
C16_Witness ==
    /\ Fetched
    /\ out.ret.w = 1000 /\ out.ret.h = 2000
    /\ out.status = "returned"
    /\ out.box = <<719, 1281>>
    /\ cache[out.path].w = 1000 /\ cache[out.path].h = 562

----------------------------------------------------------------------------
(* Properties of the embedder, stated on the syncs of SpecEmbed *)

\* every entry of the manifest has its thumbnail file in the cache c
AllThumbsCached(c) ==
    \A i \in 1..Len(get_thumb_list) : Exists(c, get_thumb_list[i].thumb_path)

\* C13: a sync over a manifest of which every entry has a cached thumbnail
\* returns, and after it the covr tag of each media file holds exactly one
\* cover, tagged JPEG, whose bytes are the bytes of the entry's thumbnail
\* file; the files of the cache are as they were.
C13_CoversEmbedded ==
    [][(pc = "idle" /\ out'.op = "sync" /\ AllThumbsCached(cache)) =>
          /\ pc' = "idle"
          /\ out'.status = "returned"
          /\ cache' = cache
          /\ \A i \in 1..Len(get_thumb_list) :
                LET covr == media'[get_thumb_list[i].media_url]
                IN  /\ Len(covr) = 1
                    /\ covr[1].imageformat = "JPEG"
                    /\ covr[1].data = cache[get_thumb_list[i].thumb_path]]_vars

C13_Witness ==
    /\ Done({"sync"})
    /\ out.status = "returned"
    /\ out.visited = NumVideos
    /\ AllThumbsCached(cache)
    /\ \A i \in 1..Len(get_thumb_list) :
          media[get_thumb_list[i].media_url]
              = <<[data |-> cache[get_thumb_list[i].thumb_path],
                   imageformat |-> "JPEG"]>>
    /\ \E i, j \in 1..Len(get_thumb_list) :
          cache[get_thumb_list[i].thumb_path]
              # cache[get_thumb_list[j].thumb_path]

\* the entries of the manifest without thumbnail file in the cache c
MissingThumbs(c) ==
    {i \in 1..Len(get_thumb_list) : ~Exists(c, get_thumb_list[i].thumb_path)}

\* C14: a sync is not aborted by the failure of one entry: when it has
\* ended, the media file of every entry whose thumbnail file exists holds
\* that thumbnail as its cover, also behind an entry whose thumbnail is
\* missing.
C14_BatchNotAborted ==
    Done({"sync"}) =>
        \A i \in 1..Len(get_thumb_list) :
            Exists(cache, get_thumb_list[i].thumb_path) =>
                media[get_thumb_list[i].media_url]
                    = <<MP4Cover(cache[get_thumb_list[i].thumb_path],
                                 FORMAT_JPEG)>>

\* C15: a sync over a manifest with an entry whose thumbnail file is missing
\* does not pass over it in silence: the sync ends with the not-found error
\* of the first such entry's thumbnail path, and the media file of every
\* entry without thumbnail keeps the covr tag it had.
C15_MissingSurfaced ==
    [][(pc = "idle" /\ out'.op = "sync" /\ MissingThumbs(cache) # {}) =>
          /\ pc' = "idle"
          /\ out'.status = "raised"
          /\ out'.exc = "FileNotFoundError"
          /\ \E i \in MissingThumbs(cache) :
                /\ out'.path = get_thumb_list[i].thumb_path
                /\ \A j \in MissingThumbs(cache) : i <= j
          /\ \A i \in MissingThumbs(cache) :
                media'[get_thumb_list[i].media_url]
                    = media[get_thumb_list[i].media_url]]_vars

\* a sync has failed on the second entry, after it embedded the first
C15_Witness ==
    /\ Done({"sync"})
    /\ out.status = "raised"
    /\ out.exc = "FileNotFoundError"
    /\ out.visited = 1
    /\ out.path = get_thumb_list[2].thumb_path
    /\ media[get_thumb_list[2].media_url] = PrevCovr
    /\ media[get_thumb_list[1].media_url] # PrevCovr

----------------------------------------------------------------------------
(* Properties of concurrent passes, stated on the two passes of SpecRace *)

\* the pass of process p has ended
PassEnded(p) ==
    /\ procs[p].pc = "idle"
    /\ procs[p].out.op = "_validate_videos"
    /\ procs[p].out.status # "none"

\* the passes that saved a file, and among them the one that saved last
Writers == {p \in Procs : procs[p].save.written}
LastWriter(p) ==
    /\ p \in Writers
    /\ \A q \in Writers \ {p} : procs[p].save.after

\* C19: two validation passes over the same video at the same time disturb
\* each other through the files only.  Under every interleaving of their
\* checks, fetches and writes both passes return, and when both have ended
\* the file at the video's cache path is the complete image that the pass
\* that wrote last has written.
C19_LastWriteWins ==
    (\A p \in Procs : PassEnded(p)) =>
        /\ \A p \in Procs : procs[p].out.status = "returned"
        /\ \A p \in Procs :
              LastWriter(p) =>
                  /\ Exists(cache, procs[p].save.path)
                  /\ cache[procs[p].save.path] = procs[p].save.bytes

----------------------------------------------------------------------------
(* Properties of the validation pass, stated on the passes of SpecScan *)

\* the cache files of the active entities of the index
ActivePaths ==
    {vid_thumb_path(ThumbManager(ActiveHits("ta_video")[i].youtube_id,
                                 "video", NoFallback), TRUE) :
        i \in 1..Len(ActiveHits("ta_video"))}
    \cup UNION {
        {ChannelThumbPath([item_id |->
                               ActiveHits("ta_channel")[i].channel_id]),
         ChannelBannerPath([item_id |->
                               ActiveHits("ta_channel")[i].channel_id])} :
        i \in 1..Len(ActiveHits("ta_channel"))}
    \cup {PlaylistThumbPath([item_id |->
                                ActiveHits("ta_playlist")[i].playlist_id]) :
        i \in 1..Len(ActiveHits("ta_playlist"))}

ActiveCount ==
    Len(ActiveHits("ta_video")) + Len(ActiveHits("ta_channel"))
        + Len(ActiveHits("ta_playlist"))

\* C7: a pass that is run right after another pass calls download_raw zero
\* times.
C7_SecondPassNoFetch ==
    (Done({"download_missing"}) /\ prev # "none") => out.calls = 0

\* C8: the failure of one entity's fetch does not abort the pass: a pass
\* that has ended has returned, has handed every active entity of the three
\* indexes to the store, and a file exists for each of them.
C8_PassNotAborted ==
    Done({"download_missing"}) =>
        /\ out.status = "returned"
        /\ out.visited = ActiveCount
        /\ \A p \in ActivePaths : Exists(cache, p)

\* the bytes of a file that holds one of the bundled default images
FallbackFiles == {JpegFile(default_map[k]) : k \in DOMAIN default_map}

\* the first active video of the index: its url is that of a real image
FirstVideo == ActiveHits("ta_video")[1]
FirstVideoPath ==
    vid_thumb_path(ThumbManager(FirstVideo.youtube_id, "video", NoFallback),
                   TRUE)

\* C21: among validation passes and deletes, a cache file that holds a
\* fallback image is never fetched again and keeps its bytes: no step
\* starts a request whose target is that file, no step changes the file,
\* and the file goes away only in a delete.
C21_FallbackKept ==
    [][\A p \in DOMAIN cache :
          cache[p] \in FallbackFiles =>
              /\ (pc' = "http") => (out'.path # p)
              /\ (p \in DOMAIN cache') => (cache'[p] = cache[p])
              /\ (p \notin DOMAIN cache') => (out'.op = "delete")]_vars

\* a later pass has visited the first video, whose file holds the fallback
\* image while its url is that of a real image, and has fetched nothing
C21_Witness ==
    /\ pc = "scan"
    /\ scan.on
    /\ scan.index_name = "ta_video"
    /\ out.visited = 1
    /\ out.calls = 0
    /\ ~Falsy(FirstVideo.vid_thumb_url)
    /\ Exists(cache, FirstVideoPath)
    /\ cache[FirstVideoPath] = JpegFile(DefaultVideoThumb)

====
